---- MODULE Spec2Model ----
(***************************************************************************)
(* Model of the squared-games engine helpers (src/src/helpers/             *)
(* App.helpers.tsx) with the types of App.Types and the shipped Binario    *)
(* game data (src/src/Binario.tsx).                                        *)
(*                                                                         *)
(* JavaScript values are modelled as follows.                              *)
(*  - a number n is <<"number", n>>, a string s is <<"string", s>>;        *)
(*  - an Array is [length, elems] where elems is a function whose domain   *)
(*    is the set of property keys that are present: an index that is not   *)
(*    in the domain is a hole and reads as undefined;                      *)
(*  - a Coordinate is the tuple <<row, col>>; a Cell is the tuple          *)
(*    <<possibilities, isFixed, coordinate>>.  The source's enums are      *)
(*    0-based, TLA+ tuples are 1-based, hence the +1 in Coordinate_Row...  *)
(*  - the outcome of a call is [kind, type, val, logged]: kind "return"    *)
(*    or "throw", type the JavaScript type of the value (or "error"),      *)
(*    logged the number of console.error lines the call wrote.             *)
(***************************************************************************)
EXTENDS Integers, Sequences, FiniteSets, TLC

VARIABLES settings, g, call, ret, steps

vars == <<settings, g, call, ret, steps>>

----------------------------------------------------------------------------
(* Bounds of the model *)

MaxDim == 2
MaxSteps == 2
MaxLen == 3
MaxContent == 2

----------------------------------------------------------------------------
(* enum Coordinate, enum GameCell: tuple positions *)

Coordinate_Row == 0 + 1
Coordinate_Column == 1 + 1
GameCell_Possibilities == 0 + 1
GameCell_isFixed == 1 + 1
GameCell_Coordinates == 2 + 1

\* rowcolIndexSchema = z.number().max(50).positive(): a row or column index
\* is a number greater than 0 and at most 50
RowColIndexMax == 50
rowcolIndexSchema(n) == n <= RowColIndexMax /\ n > 0

\* CellCoordinateSchema = z.tuple([rowcolIndexSchema, rowcolIndexSchema])
CellCoordinateSchema(c) ==
  rowcolIndexSchema(c[1]) /\ rowcolIndexSchema(c[2])

Num(n) == <<"number", n>>
Str(s) == <<"string", s>>

----------------------------------------------------------------------------
(* Outcomes of a call *)

Return(type, val, logged) ==
  [kind |-> "return", type |-> type, val |-> val, logged |-> logged]
Throw(error, logged) ==
  [kind |-> "throw", type |-> "error", val |-> error, logged |-> logged]
NoCall == [kind |-> "none", type |-> "none", val |-> "none", logged |-> 0]

----------------------------------------------------------------------------
(* JavaScript Array primitives used by the helpers *)

\* new Array(n): n holes, no element present
NewArray(n) == [length |-> n, elems |-> <<>>]

\* arr[i] is present (not a hole, not out of range)
HasIndex(arr, i) == i \in DOMAIN arr.elems

\* arr[i] = v: sets the property, growing length when i is past the end;
\* a negative key becomes a plain property and leaves length alone
ArraySet(arr, i, v) ==
  [length |-> IF i >= arr.length THEN i + 1 ELSE arr.length,
   elems |-> [k \in DOMAIN arr.elems \cup {i} |->
                 IF k = i THEN v ELSE arr.elems[k]]]

\* [...Array(n).keys()]: the dense list 0, 1, ..., n-1
ArrayKeys(n) == [i \in 1..n |-> i - 1]

----------------------------------------------------------------------------
(* Coordinate collections *)

isColumnCollection(collection) ==
  LET columnCoordinates ==
        [i \in 1..Len(collection) |-> collection[i][Coordinate_Column]]
  IN \A i \in 1..Len(columnCoordinates) :
        columnCoordinates[i] = columnCoordinates[1]

\* isRowCollection reading the column component (index slip)
isRowCollection_ByColumn(collection) ==
  LET rowCoordinates ==
        [i \in 1..Len(collection) |-> collection[i][Coordinate_Column]]
  IN \A i \in 1..Len(rowCoordinates) :
        rowCoordinates[i] = rowCoordinates[1]

isRowCollection(collection) ==
  LET rowCoordinates ==
        [i \in 1..Len(collection) |-> collection[i][Coordinate_Row]]
  IN \A i \in 1..Len(rowCoordinates) :
        rowCoordinates[i] = rowCoordinates[1]

\* Array(maxRow) throws RangeError for a negative length
rowCollection(r, maxRow) ==
  IF maxRow < 0
  THEN Throw("RangeError", 0)
  ELSE Return("collection",
              [i \in 1..maxRow |-> <<r, ArrayKeys(maxRow)[i]>>], 0)

colCollection(c, maxCol) ==
  IF maxCol < 0
  THEN Throw("RangeError", 0)
  ELSE Return("collection",
              [i \in 1..maxCol |-> <<ArrayKeys(maxCol)[i], c>>], 0)

----------------------------------------------------------------------------
(* Cells and game field *)

cellIsFound(cell) == Len(cell[GameCell_Possibilities]) = 1

cellCanNotBeChanged(cell) == cell[GameCell_isFixed]

createCell(initialContent, isFixed, c) == <<initialContent, isFixed, c>>

\* g[row][col]: reading a property of the undefined g[row] throws
cellAt(c, gf) ==
  IF ~HasIndex(gf, c[Coordinate_Row])
  THEN Throw("TypeError", 0)
  ELSE LET row == gf.elems[c[Coordinate_Row]]
       IN IF HasIndex(row, c[Coordinate_Column])
          THEN Return("cell", row.elems[c[Coordinate_Column]], 0)
          ELSE Return("undefined", "undefined", 0)

\* g[row][col] = cell: the outcome, and the game field after the call
setCellAt(c, gf, cell) ==
  IF ~HasIndex(gf, c[Coordinate_Row])
  THEN [out |-> Throw("TypeError", 0), gf |-> gf]
  ELSE [out |-> Return("undefined", "undefined", 0),
        gf |-> [gf EXCEPT !.elems[c[Coordinate_Row]] =
                            ArraySet(@, c[Coordinate_Column], cell)]]

\* the content.forEach loop of initializeGame from entry i on, logged
\* counting the console.error lines written so far
RECURSIVE PlaceContent(_, _, _, _)
PlaceContent(content, i, gf, logged) ==
  IF i > Len(content)
  THEN Return("gamefield", gf, logged)
  ELSE LET cell == content[i]
           coordinate == cell[GameCell_Coordinates]
       IN IF cellIsFound(cell)
          THEN LET res == setCellAt(coordinate, gf, cell)
               IN IF res.out.kind = "throw"
                  THEN Throw(res.out.val, logged)
                  ELSE PlaceContent(content, i + 1, res.gf, logged)
          ELSE PlaceContent(content, i + 1, gf, logged + 1)

\* Array.prototype.map calls its callback for the indices that are present
\* and leaves the holes of the receiver as holes of the result: the mapped
\* arrays range over DOMAIN elems of the arrays new Array(n) made.  The
\* callback parameters keep the source's names: the outer index is called
\* colIndex and the inner one rowIndex.
initializeGame(content, s) ==
  LET rows == NewArray(s.MAXROW)
      gf == [length |-> rows.length,
             elems |-> [colIndex \in DOMAIN rows.elems |->
               LET colCoords == NewArray(s.MAXCOL)
               IN [length |-> colCoords.length,
                   elems |-> [rowIndex \in DOMAIN colCoords.elems |->
                     createCell(s.CELLRESULTS, FALSE,
                                <<rowIndex, colIndex>>)]]]]
  IN PlaceContent(content, 1, gf, 0)

----------------------------------------------------------------------------
(* Shipped game data *)

binarioGameSettings ==
  [NAME |-> "Binario",
   CELLRESULTS |-> <<Num(0), Num(1)>>,
   MAXROW |-> 12,
   MAXCOL |-> 12]

binarioExample ==
  << createCell(<<Str("1")>>, TRUE, <<0, 0>>),
     createCell(<<Str("1")>>, TRUE, <<3, 0>>),
     createCell(<<Str("1")>>, TRUE, <<4, 0>>),
     createCell(<<Str("1")>>, TRUE, <<1, 4>>),
     createCell(<<Str("1")>>, TRUE, <<1, 10>>),
     createCell(<<Str("1")>>, TRUE, <<2, 0>>),
     createCell(<<Str("1")>>, TRUE, <<2, 1>>),
     createCell(<<Str("1")>>, TRUE, <<3, 0>>),
     createCell(<<Str("1")>>, TRUE, <<3, 11>>),
     createCell(<<Str("1")>>, TRUE, <<4, 2>>),
     createCell(<<Str("1")>>, TRUE, <<5, 0>>),
     createCell(<<Str("1")>>, TRUE, <<5, 2>>) >>

\* the rule ignores both arguments and answers false
binarioColumnRule(column, gf) == FALSE

binarioRules == << "binarioColumnRule" >>

----------------------------------------------------------------------------
(* Inputs of the calls *)

\* game settings: small boards over the domain [0, 1], and the shipped one
InputSettings ==
  { [NAME |-> "Test", CELLRESULTS |-> <<Num(0), Num(1)>>,
     MAXROW |-> r, MAXCOL |-> c] : r \in 1..MaxDim, c \in 1..MaxDim }
  \cup {binarioGameSettings}

\* possibility lists: empty, found, undetermined, duplicated, out of domain
InputPossibilities ==
  { <<>>, <<Num(0)>>, <<Num(1)>>, <<Num(0), Num(1)>>,
    <<Num(0), Num(0)>>, <<Str("1")>> }

\* coordinates passed to cellAt: in the board, past its end, and negative
InputCoordinates == (-1..MaxDim) \X (-1..MaxDim)

\* coordinates passed to setCellAt: in the board and past its end
WriteCoordinates == (0..MaxDim) \X (0..MaxDim)

\* coordinates carried by the cells passed in
CellCoordinates == { <<0, 0>>, <<1, 1>> }

InputCells ==
  { createCell(p, f, c) :
      p \in InputPossibilities, f \in BOOLEAN, c \in CellCoordinates }

\* cells offered as initial content
InitialCells ==
  { createCell(<<Num(0)>>, TRUE, <<0, 0>>),
    createCell(<<Num(0)>>, TRUE, <<0, 1>>),
    createCell(<<Num(1)>>, TRUE, <<1, 0>>),
    createCell(<<Num(0), Num(1)>>, TRUE, <<0, 0>>),
    createCell(<<Num(0), Num(1)>>, FALSE, <<1, 1>>),
    createCell(<<>>, FALSE, <<0, 1>>) }

InputContents ==
  UNION { [1..n -> InitialCells] : n \in 0..MaxContent }
  \cup {binarioExample}

\* A GameField as the layout comment of the helpers describes it: row r is
\* a dense array whose entry c is a Cell carrying the coordinate [r, c];
\* the cells named in fixedAt are fixed cells holding the first result,
\* all others hold every result and are not fixed.
GameFieldOf(s, fixedAt) ==
  [length |-> s.MAXROW,
   elems |-> [r \in 0..(s.MAXROW - 1) |->
     [length |-> s.MAXCOL,
      elems |-> [c \in 0..(s.MAXCOL - 1) |->
        IF <<r, c>> \in fixedAt
        THEN createCell(<<s.CELLRESULTS[1]>>, TRUE, <<r, c>>)
        ELSE createCell(s.CELLRESULTS, FALSE, <<r, c>>)]]]]

InputGameFields(s) == { GameFieldOf(s, {}), GameFieldOf(s, {<<0, 0>>}) }

\* row and column indices and lengths passed to the collection helpers
InputIndices == -1..MaxLen
InputLengths == -1..MaxLen

\* coordinate collections passed to the classifiers
CollectionCoordinates == (0..1) \X (0..1)
InputCollections ==
  UNION { [1..n -> CollectionCoordinates] : n \in 0..MaxLen }

----------------------------------------------------------------------------
(* The game field and the calls made on it *)

Init ==
  /\ settings \in InputSettings
  /\ g \in InputGameFields(settings)
  /\ call = [op |-> "none"]
  /\ ret = NoCall
  /\ steps = 0

\* let gamefield = initializeGame(ex, gs): the field is replaced when the
\* call returns and kept when it throws
InitializeGame ==
  /\ steps < MaxSteps
  /\ \E content \in InputContents :
       LET out == initializeGame(content, settings)
       IN /\ call' = [op |-> "initializeGame", content |-> content]
          /\ ret' = out
          /\ g' = IF out.kind = "return" THEN out.val ELSE g
  /\ steps' = steps + 1
  /\ UNCHANGED settings

SetCellAt ==
  /\ steps < MaxSteps
  /\ \E c \in WriteCoordinates, cell \in InputCells :
       LET res == setCellAt(c, g, cell)
       IN /\ call' = [op |-> "setCellAt", c |-> c, cell |-> cell, before |-> g]
          /\ ret' = res.out
          /\ g' = res.gf
  /\ steps' = steps + 1
  /\ UNCHANGED settings

CellAt ==
  /\ steps < MaxSteps
  /\ \E c \in InputCoordinates :
       /\ call' = [op |-> "cellAt", c |-> c]
       /\ ret' = cellAt(c, g)
  /\ steps' = steps + 1
  /\ UNCHANGED <<settings, g>>

CreateCell ==
  /\ steps < MaxSteps
  /\ \E p \in InputPossibilities, f \in BOOLEAN, c \in CellCoordinates :
       /\ call' = [op |-> "createCell", initialContent |-> p,
                   isFixed |-> f, c |-> c]
       /\ ret' = Return("cell", createCell(p, f, c), 0)
  /\ steps' = steps + 1
  /\ UNCHANGED <<settings, g>>

\* the shipped column rule applied to a column of the board and the field
BinarioColumnRule ==
  /\ steps < MaxSteps
  /\ \E c \in 0..(settings.MAXCOL - 1) :
       /\ c <= MaxDim
       /\ LET column == colCollection(c, settings.MAXROW).val
          IN /\ call' = [op |-> "binarioColumnRule", column |-> column,
                         before |-> g]
             /\ ret' = Return("boolean", binarioColumnRule(column, g), 0)
  /\ steps' = steps + 1
  /\ UNCHANGED <<settings, g>>

Next ==
  InitializeGame \/ SetCellAt \/ CellAt \/ CreateCell \/ BinarioColumnRule

Spec == Init /\ [][Next]_vars

----------------------------------------------------------------------------
(* The collection helpers, called on their own *)

InitColl ==
  /\ settings \in InputSettings
  /\ g = NewArray(0)
  /\ call = [op |-> "none"]
  /\ ret = NoCall
  /\ steps = 0

RowCollection ==
  /\ \E r \in InputIndices, maxRow \in InputLengths :
       /\ call' = [op |-> "rowCollection", index |-> r, length |-> maxRow]
       /\ ret' = rowCollection(r, maxRow)
  /\ UNCHANGED <<settings, g, steps>>

ColCollection ==
  /\ \E c \in InputIndices, maxCol \in InputLengths :
       /\ call' = [op |-> "colCollection", index |-> c, length |-> maxCol]
       /\ ret' = colCollection(c, maxCol)
  /\ UNCHANGED <<settings, g, steps>>

\* the collection classified is one a caller wrote down or the one the
\* previous call returned
Classifiable ==
  InputCollections \cup (IF ret.type = "collection" THEN {ret.val} ELSE {})

IsRowCollection ==
  /\ \E collection \in Classifiable :
       /\ call' = [op |-> "isRowCollection", collection |-> collection]
       /\ ret' = Return("boolean", isRowCollection(collection), 0)
  /\ UNCHANGED <<settings, g, steps>>

IsColumnCollection ==
  /\ \E collection \in Classifiable :
       /\ call' = [op |-> "isColumnCollection", collection |-> collection]
       /\ ret' = Return("boolean", isColumnCollection(collection), 0)
  /\ UNCHANGED <<settings, g, steps>>

NextColl ==
  RowCollection \/ ColCollection \/ IsRowCollection \/ IsColumnCollection

SpecColl == InitColl /\ [][NextColl]_vars

----------------------------------------------------------------------------
(* Vocabulary of the properties *)

InBounds(s, r, c) == r \in 0..(s.MAXROW - 1) /\ c \in 0..(s.MAXCOL - 1)

BoardPositions(s) == (0..(s.MAXROW - 1)) \X (0..(s.MAXCOL - 1))

\* a Cell is stored at gf[r][c]
StoredAt(gf, r, c) == HasIndex(gf, r) /\ HasIndex(gf.elems[r], c)

StoredCell(gf, r, c) == gf.elems[r].elems[c]

Possibilities(cell) == cell[GameCell_Possibilities]
IsFixed(cell) == cell[GameCell_isFixed]
CoordinateOf(cell) == cell[GameCell_Coordinates]

Range(seq) == { seq[i] : i \in 1..Len(seq) }

\* duplicate-free, and a single value when fixed: what the constructor can
\* judge without knowing the domain
WellShapedCell(cell) ==
  /\ Cardinality(Range(Possibilities(cell))) = Len(Possibilities(cell))
  /\ IsFixed(cell) => Len(Possibilities(cell)) = 1

\* well shaped and inside the domain of the game
WellFormedCell(cell, s) ==
  /\ WellShapedCell(cell)
  /\ Range(Possibilities(cell)) \subseteq Range(s.CELLRESULTS)

\* the sequences the collection helpers are specified to return
RowSeq(r, n) == [i \in 1..n |-> <<r, i - 1>>]
ColSeq(c, n) == [i \in 1..n |-> <<i - 1, c>>]

----------------------------------------------------------------------------
(* C1 *)

\* C1: initializeGame called with no initial cells returns a field of
\* MAXROW rows by MAXCOL columns whose every position holds a cell with
\* exactly CELLRESULTS as possibilities and isFixed false.
C1_RoundTripInitialization ==
  (call.op = "initializeGame" /\ call.content = <<>>) =>
    /\ ret.kind = "return"
    /\ ret.val.length = settings.MAXROW
    /\ \A r \in 0..(settings.MAXROW - 1) :
         /\ HasIndex(ret.val, r)
         /\ ret.val.elems[r].length = settings.MAXCOL
         /\ \A c \in 0..(settings.MAXCOL - 1) :
              /\ StoredAt(ret.val, r, c)
              /\ Possibilities(StoredCell(ret.val, r, c)) = settings.CELLRESULTS
              /\ IsFixed(StoredCell(ret.val, r, c)) = FALSE

----------------------------------------------------------------------------
(* C2 *)

\* C2: in the field initializeGame returns and after any sequence of
\* setCellAt calls, every position of the board holds a cell that carries
\* that position as its coordinate, row first.
C2_GridCoordinateInvariant ==
  \A pos \in BoardPositions(settings) :
    /\ StoredAt(g, pos[1], pos[2])
    /\ CoordinateOf(StoredCell(g, pos[1], pos[2])) = pos

----------------------------------------------------------------------------
(* C3 *)

\* C3: a setCellAt call leaves the possibilities of every fixed cell as
\* they were, and a setCellAt aimed at a fixed cell with a cell of other
\* content or another coordinate fails (FixedCellMutationError) and leaves
\* the field unchanged.
C3_FixedCellInvariance ==
  call.op = "setCellAt" =>
    /\ \A pos \in BoardPositions(settings) :
         (StoredAt(call.before, pos[1], pos[2])
            /\ IsFixed(StoredCell(call.before, pos[1], pos[2]))) =>
           /\ StoredAt(g, pos[1], pos[2])
           /\ Possibilities(StoredCell(g, pos[1], pos[2])) =
                Possibilities(StoredCell(call.before, pos[1], pos[2]))
    /\ (/\ StoredAt(call.before, call.c[1], call.c[2])
        /\ IsFixed(StoredCell(call.before, call.c[1], call.c[2]))
        /\ \/ CoordinateOf(call.cell) # call.c
           \/ Possibilities(call.cell) #
                Possibilities(StoredCell(call.before, call.c[1], call.c[2]))) =>
         /\ ret.kind = "throw"
         /\ g = call.before

----------------------------------------------------------------------------
(* C4 *)

\* C4: initializeGame fails (IncompleteInitialCellError) and returns no
\* field whenever one of the initial cells has more than one possibility.
C4_IncompleteInitialCellFails ==
  (/\ call.op = "initializeGame"
   /\ \E i \in 1..Len(call.content) :
        Len(Possibilities(call.content[i])) > 1) =>
    ret.kind = "throw"

----------------------------------------------------------------------------
(* C5 *)

\* C5: every cell of the field is duplicate-free, inside the domain and,
\* when fixed, of exactly one possibility; createCell rejects
\* (InvalidCellError) a cell with duplicates or fixed with other than one
\* possibility, and setCellAt rejects any cell that is not well formed,
\* instead of returning or storing it.
C5_CellWellFormedness ==
  /\ \A pos \in BoardPositions(settings) :
       StoredAt(g, pos[1], pos[2]) =>
         WellFormedCell(StoredCell(g, pos[1], pos[2]), settings)
  /\ (call.op = "createCell"
        /\ ~WellShapedCell(<<call.initialContent, call.isFixed, call.c>>)) =>
       ret.kind = "throw"
  /\ (call.op = "setCellAt" /\ ~WellFormedCell(call.cell, settings)) =>
       ret.kind = "throw"

----------------------------------------------------------------------------
(* C8 *)

\* C8: cellAt fails (OutOfBoundsError) and returns nothing for a coordinate
\* outside the board, and returns the cell stored at g[row][col] for a
\* coordinate inside it.
C8_CellAtBounds ==
  call.op = "cellAt" =>
    IF InBounds(settings, call.c[1], call.c[2])
    THEN /\ ret.kind = "return"
         /\ ret.type = "cell"
         /\ StoredAt(g, call.c[1], call.c[2])
         /\ ret.val = StoredCell(g, call.c[1], call.c[2])
    ELSE ret.kind = "throw"

----------------------------------------------------------------------------
(* C9 *)

\* C9: rowCollection(r, maxCol) and colCollection(c, maxRow)
\* return the ordered coordinates of the row or column when the index is
\* inside the board, and fail (OutOfRangeError) when it is negative or not
\* below the board's bound.
C9_CollectionsRangeChecked ==
  /\ (call.op = "rowCollection" /\ call.length = settings.MAXCOL) =>
       IF call.index \in 0..(settings.MAXROW - 1)
       THEN ret = Return("collection", RowSeq(call.index, call.length), 0)
       ELSE ret.kind = "throw"
  /\ (call.op = "colCollection" /\ call.length = settings.MAXROW) =>
       IF call.index \in 0..(settings.MAXCOL - 1)
       THEN ret = Return("collection", ColSeq(call.index, call.length), 0)
       ELSE ret.kind = "throw"

----------------------------------------------------------------------------
(* C10 *)

\* C10: isRowCollection (isColumnCollection) is true exactly when every
\* member's row (column) equals the first member's, hence true for the
\* empty collection; for a row collection of a valid row r and length m,
\* isRowCollection is true and isColumnCollection is true only when m = 1.
C10_CollectionClassification ==
  /\ call.op = "isRowCollection" =>
       /\ ret.val = (\A i \in 1..Len(call.collection) :
                       call.collection[i][1] = call.collection[1][1])
       /\ call.collection = <<>> => ret.val = TRUE
  /\ call.op = "isColumnCollection" =>
       /\ ret.val = (\A i \in 1..Len(call.collection) :
                       call.collection[i][2] = call.collection[1][2])
       /\ call.collection = <<>> => ret.val = TRUE
  /\ \A r \in 0..MaxLen, m \in 1..MaxLen :
       call.op \in {"isRowCollection", "isColumnCollection"}
         /\ call.collection = RowSeq(r, m) =>
           ret.val = (call.op = "isRowCollection" \/ m = 1)

\* a row collection of two or more members was classified as not a column
C10_Witness ==
  /\ call.op = "isColumnCollection"
  /\ \E r \in 0..MaxLen, m \in 2..MaxLen : call.collection = RowSeq(r, m)
  /\ ret.val = FALSE

----------------------------------------------------------------------------
(* C11 *)

\* C11: every coordinate the engine creates or stores has its row and its
\* column in [1, 50], the range of the code's CellCoordinateSchema: each
\* member of a rowCollection or colCollection result (for an index and a
\* length that are themselves in [1, 50]), and the coordinate of every cell
\* of a game field initializeGame returns.
C11_CoordinateRange ==
  /\ (/\ call.op \in {"rowCollection", "colCollection"}
      /\ rowcolIndexSchema(call.index)
      /\ rowcolIndexSchema(call.length)) =>
       /\ ret.kind = "return"
       /\ \A i \in 1..Len(ret.val) : CellCoordinateSchema(ret.val[i])
  /\ (call.op = "initializeGame" /\ ret.kind = "return") =>
       \A r \in DOMAIN ret.val.elems :
         \A c \in DOMAIN ret.val.elems[r].elems :
           CellCoordinateSchema(CoordinateOf(StoredCell(ret.val, r, c)))

----------------------------------------------------------------------------
(* C12 *)

\* "cannot be more than 6 each"
BinarioColumnLimit == 6

\* the members of the column whose cell is found with the value n
FoundWith(column, gf, n) ==
  { i \in 1..Len(column) :
      /\ StoredAt(gf, column[i][1], column[i][2])
      /\ Possibilities(StoredCell(gf, column[i][1], column[i][2])) = <<Num(n)>> }

\* the column holds at most 6 ones and at most 6 zeros
ColumnConsistent(column, gf) ==
  /\ Cardinality(FoundWith(column, gf, 1)) <= BinarioColumnLimit
  /\ Cardinality(FoundWith(column, gf, 0)) <= BinarioColumnLimit

\* C12: the shipped Binario column rule returns true exactly when the
\* column holds at most 6 ones and at most 6 zeros, false only when that
\* limit is exceeded, and leaves the field unchanged.
C12_ColumnRuleIsConsistencyPredicate ==
  call.op = "binarioColumnRule" =>
    /\ ret.val = ColumnConsistent(call.column, g)
    /\ g = call.before

====
